---- MODULE Spec2Model ----
(***************************************************************************)
(* A model of the BART departure widget (script.js): the run() entry       *)
(* point with its location fallback, the nearest-station search, the       *)
(* departure aggregation and the direction filter.                         *)
(*                                                                         *)
(* Numbers.  Latitudes and longitudes are integers in micro-degrees.       *)
(* JavaScript numbers that may be NaN or Infinity are records              *)
(* [nan, inf, v].  The two haversine functions are tabulated over the      *)
(* coordinates the model uses: the table entries are the values the        *)
(* source's formula yields in IEEE doubles, rounded to metres              *)
(* (calculateDistance) and to thousandths of a mile                        *)
(* (calculateDistanceFromSF).  Distinct entries differ by far more than    *)
(* the rounding, and equal entries come from identical coordinates.        *)
(*                                                                         *)
(* Objects.  `location === getLastLocation()` compares object identity,    *)
(* so every object the script allocates for a location carries a           *)
(* reference number `ref`, fresh per allocation.                           *)
(***************************************************************************)
EXTENDS Integers, Sequences, FiniteSets, TLC

VARIABLES
    runsInWidget,   \* config.runsInWidget of the current invocation
    pc,             \* position of run(): idle, awaitLocation, awaitDirectory,
                    \* awaitDepartures, done; or the stages of the pure pipeline
    clock,          \* wall clock, in minutes
    runs,           \* invocations of run() started so far
    keychain,       \* Keychain entry 'lastKnownLocation'
    nextRef,        \* next free object reference
    location,       \* run(): let location
    liveFix,        \* outcome of Location.current(): pending, ok, failed
    closest,        \* result of findClosestStation
    etd,            \* result of getStationDepartures
    allDepartures,  \* result of formatDepartures
    departures,     \* result of filterRoutesByDirection
    view,           \* what the invocation presented
    log,            \* console.log messages of the invocation
    calls           \* calls of external collaborators in the invocation

vars == <<runsInWidget, pc, clock, runs, keychain, nextRef, location, liveFix,
          closest, etd, allDepartures, departures, view, log, calls>>

----------------------------------------------------------------------------
(* Bounds of the model *)

MaxRuns == 2
MaxStations == 2
MaxTrains == 3

----------------------------------------------------------------------------
(* JavaScript values *)

Null == [kind |-> "null"]

Num(n) == [nan |-> FALSE, inf |-> FALSE, v |-> n]
NaN == [nan |-> TRUE, inf |-> FALSE, v |-> 0]
POSITIVE_INFINITY == [nan |-> FALSE, inf |-> TRUE, v |-> 0]

\* a < b on numbers; any comparison with NaN is false
NumLess(a, b) ==
    /\ ~a.nan /\ ~b.nan
    /\ ~a.inf
    /\ (b.inf \/ a.v < b.v)

\* a - b for two Dates' time values
NumMinus(a, b) == IF a.nan \/ b.nan THEN NaN ELSE Num(a.v - b.v)

----------------------------------------------------------------------------
(* Configuration.  The source names these SF_LATITUDE, SF_LONGITUDE and    *)
(* SF_BORDER_MILES; a TLA+ identifier cannot begin with SF_. *)

K_SF_LATITUDE == 37774900
K_SF_LONGITUDE == 0 - 122419400
K_SF_BORDER_MILES == 7

----------------------------------------------------------------------------
(* Coordinates and stations of the model *)

AtSF == [latitude |-> K_SF_LATITUDE, longitude |-> K_SF_LONGITUDE]
EastOfSF == [latitude |-> 37800000, longitude |-> 0 - 122270000]
WestOfSF == [latitude |-> 37660000, longitude |-> 0 - 122470000]
NearSF == [latitude |-> 37790000, longitude |-> 0 - 122390000]

Coordinates == {AtSF, EastOfSF, WestOfSF, NearSF}

\* coordinates around the border: due north of the centre beyond the border,
\* east of the centre within it, and east and west of the centre just beyond it
NorthOfSF == [latitude |-> 37900000, longitude |-> K_SF_LONGITUDE]
InsideEast == [latitude |-> K_SF_LATITUDE, longitude |-> 0 - 122300000]
JustOutsideEast == [latitude |-> K_SF_LATITUDE, longitude |-> 0 - 122290000]
JustOutsideWest == [latitude |-> K_SF_LATITUDE, longitude |-> 0 - 122550000]

BorderCoordinates ==
    Coordinates \cup {NorthOfSF, InsideEast, JustOutsideEast, JustOutsideWest}

\* Number.parseFloat on the gtfs_latitude / gtfs_longitude strings of the feed
parseFloat(s) ==
    CASE s = "37.803768" -> Num(37803768)
      [] s = "-122.271450" -> Num(0 - 122271450)
      [] s = "37.706121" -> Num(37706121)
      [] s = "-122.469081" -> Num(0 - 122469081)
      [] OTHER -> NaN

Station(abbr, name, lat, lon) ==
    [abbr |-> abbr, name |-> name, address |-> name,
     gtfs_latitude |-> lat, gtfs_longitude |-> lon]

\* 12TH and 19TH carry the same coordinates, so that two stations of a
\* directory can be at exactly the same distance
Stations ==
    { Station("12TH", "12th St. Oakland City Center", "37.803768", "-122.271450"),
      Station("19TH", "19th St. Oakland", "37.803768", "-122.271450"),
      Station("DALY", "Daly City", "37.706121", "-122.469081") }

RECURSIVE SeqsUpTo(_, _)
SeqsUpTo(S, n) ==
    IF n = 0 THEN {<<>>}
    ELSE LET shorter == SeqsUpTo(S, n - 1)
         IN  shorter \cup {Append(s, x) : s \in shorter, x \in S}

----------------------------------------------------------------------------
(* Geo math *)

\* miles * 1000 from the San Francisco centre
calculateDistanceFromSF(latitude, longitude) ==
    CASE <<latitude, longitude>> = <<37774900, 0 - 122419400>> -> 0
      [] <<latitude, longitude>> = <<37800000, 0 - 122270000>> -> 8341
      [] <<latitude, longitude>> = <<37660000, 0 - 122470000>> -> 8407
      [] <<latitude, longitude>> = <<37790000, 0 - 122390000>> -> 1915
      [] <<latitude, longitude>> = <<37900000, 0 - 122419400>> -> 8644
      [] <<latitude, longitude>> = <<37774900, 0 - 122300000>> -> 6521
      [] <<latitude, longitude>> = <<37774900, 0 - 122290000>> -> 7067
      [] <<latitude, longitude>> = <<37774900, 0 - 122550000>> -> 7133

isEastOfSFBorder_AlwaysLongitude(latitude, longitude) ==
    longitude > K_SF_LONGITUDE

isEastOfSFBorder(latitude, longitude) ==
    LET distanceFromSF == calculateDistanceFromSF(latitude, longitude)
    IN  IF distanceFromSF <= K_SF_BORDER_MILES * 1000
        THEN FALSE
        ELSE longitude > K_SF_LONGITUDE

\* kilometres * 1000 between a coordinate and a station's coordinate
calculateDistance(lat1, lon1, lat2, lon2) ==
    IF lat2.nan \/ lon2.nan THEN NaN
    ELSE LET from == <<lat1, lon1>>
             to == <<lat2.v, lon2.v>>
             oak == <<37803768, 0 - 122271450>>
             daly == <<37706121, 0 - 122469081>>
         IN  Num(CASE from = <<37774900, 0 - 122419400>> /\ to = oak -> 13391
                   [] from = <<37774900, 0 - 122419400>> /\ to = daly -> 8808
                   [] from = <<37800000, 0 - 122270000>> /\ to = oak -> 438
                   [] from = <<37800000, 0 - 122270000>> /\ to = daly -> 20379
                   [] from = <<37660000, 0 - 122470000>> /\ to = oak -> 23674
                   [] from = <<37660000, 0 - 122470000>> /\ to = daly -> 5129
                   [] from = <<37790000, 0 - 122390000>> /\ to = oak -> 10528
                   [] from = <<37790000, 0 - 122390000>> /\ to = daly -> 11633)

----------------------------------------------------------------------------
(* Nearest station *)

closerThan_OrEqual(distance, minDistance) ==
    NumLess(distance, minDistance) \/ distance = minDistance

\* the test `distance < minDistance` of the search loop
closerThan(distance, minDistance) == NumLess(distance, minDistance)

RECURSIVE closestLoop(_, _, _, _)
closestLoop(stations, currentLocation, closestStation, minDistance) ==
    IF stations = <<>>
    THEN [station |-> closestStation, distance |-> minDistance]
    ELSE LET station == Head(stations)
             distance == calculateDistance(
                 currentLocation.latitude, currentLocation.longitude,
                 parseFloat(station.gtfs_latitude),
                 parseFloat(station.gtfs_longitude))
         IN  IF closerThan(distance, minDistance)
             THEN closestLoop(Tail(stations), currentLocation, station, distance)
             ELSE closestLoop(Tail(stations), currentLocation,
                              closestStation, minDistance)

\* findClosestStation after loadStationList has returned `stations`
findClosestStation(stations, currentLocation) ==
    closestLoop(stations, currentLocation, Null, POSITIVE_INFINITY)

----------------------------------------------------------------------------
(* Departure aggregation *)

\* the keys of the `departures` object of formatDepartures, in insertion order
LineKeys == <<"RedE", "RedW", "YellowE", "YellowW",
              "OrangeE", "OrangeW", "GreenE", "GreenW">>

LineKeySet == {LineKeys[i] : i \in 1..Len(LineKeys)}

\* getLineColor with the two Richmond entries exchanged
getLineColor_RichmondExchanged(destination, direction) ==
    CASE destination = "ANTC" /\ direction = "North" -> "YellowE"
      [] destination = "ANTC" /\ direction = "South" -> "YellowW"
      [] destination = "PITT" /\ direction = "North" -> "YellowE"
      [] destination = "PITT" /\ direction = "South" -> "YellowW"
      [] destination = "SFIA" /\ direction = "South" -> "YellowW"
      [] destination = "SFIA" /\ direction = "North" -> "YellowE"
      [] destination = "MLBR" /\ direction = "South" -> "RedW"
      [] destination = "MLBR" /\ direction = "North" -> "RedE"
      [] destination = "RICH" /\ direction = "North" -> "OrangeW"
      [] destination = "RICH" /\ direction = "South" -> "RedE"
      [] destination = "BERY" /\ direction = "South" -> "GreenE"
      [] destination = "BERY" /\ direction = "North" -> "OrangeW"
      [] destination = "DALY" /\ direction = "South" -> "GreenW"
      [] destination = "DALY" /\ direction = "North" -> "GreenE"
      [] OTHER -> "Unknown"

getLineColor(destination, direction) ==
    CASE destination = "ANTC" /\ direction = "North" -> "YellowE"
      [] destination = "ANTC" /\ direction = "South" -> "YellowW"
      [] destination = "PITT" /\ direction = "North" -> "YellowE"
      [] destination = "PITT" /\ direction = "South" -> "YellowW"
      [] destination = "SFIA" /\ direction = "South" -> "YellowW"
      [] destination = "SFIA" /\ direction = "North" -> "YellowE"
      [] destination = "MLBR" /\ direction = "South" -> "RedW"
      [] destination = "MLBR" /\ direction = "North" -> "RedE"
      [] destination = "RICH" /\ direction = "North" -> "RedE"
      [] destination = "RICH" /\ direction = "South" -> "OrangeW"
      [] destination = "BERY" /\ direction = "South" -> "GreenE"
      [] destination = "BERY" /\ direction = "North" -> "OrangeW"
      [] destination = "DALY" /\ direction = "South" -> "GreenW"
      [] destination = "DALY" /\ direction = "North" -> "GreenE"
      [] OTHER -> "Unknown"

\* Number.parseInt on the `minutes` strings of the feed
parseInt(s) ==
    CASE s = "0" -> Num(0)
      [] s = "5" -> Num(5)
      [] s = "12" -> Num(12)
      [] OTHER -> NaN

\* new Date(): the time value, in milliseconds, of the wall clock
DateNow(minute) == Num(minute * 60000)

\* new Date(now.getTime() + n * 60000)
DatePlusMinutes(now, n) ==
    IF now.nan \/ n.nan THEN NaN ELSE Num(now.v + n.v * 60000)

\* the string `${displayHours}:${displayMinutes} ${ampm}`, as its three parts;
\* displayMinutes is its two characters
formatLastUpdated(date) ==
    IF date.nan
    THEN [displayHours |-> NaN, displayMinutes |-> <<>>, ampm |-> "AM"]
    ELSE LET hours == (date.v \div 3600000) % 24
             minutes == (date.v \div 60000) % 60
             ampm == IF hours >= 12 THEN "PM" ELSE "AM"
             displayHours == IF hours = 0 THEN 12
                             ELSE IF hours > 12 THEN hours % 12 ELSE hours
             displayMinutes == IF minutes < 10 THEN <<0, minutes>>
                               ELSE <<minutes \div 10, minutes % 10>>
         IN  [displayHours |-> Num(displayHours),
              displayMinutes |-> displayMinutes, ampm |-> ampm]

\* the object pushed for one estimate of one destination
Departure(destination, estimate, now) ==
    LET departureTime == DatePlusMinutes(now, parseInt(estimate.minutes))
    IN  [destination |-> destination.destination,
         minutes |-> estimate.minutes,
         departureTime |-> formatLastUpdated(departureTime),
         actualDepartureTime |-> departureTime,
         length |-> estimate.length,
         direction |-> estimate.direction]

RECURSIVE pushEstimates(_, _, _, _)
pushEstimates(destination, estimates, now, acc) ==
    IF estimates = <<>> THEN acc
    ELSE LET estimate == Head(estimates)
             lineColor == getLineColor(destination.abbreviation, estimate.direction)
             next == IF lineColor \in DOMAIN acc
                     THEN [acc EXCEPT ![lineColor] =
                              Append(@, Departure(destination, estimate, now))]
                     ELSE acc
         IN  pushEstimates(destination, Tail(estimates), now, next)

RECURSIVE pushDestinations(_, _, _)
pushDestinations(destinations, now, acc) ==
    IF destinations = <<>> THEN acc
    ELSE pushDestinations(
             Tail(destinations), now,
             pushEstimates(Head(destinations), Head(destinations).estimate, now, acc))

----------------------------------------------------------------------------
(* Array.prototype.sort with the comparator                                *)
(*     (a, b) => a.actualDepartureTime - b.actualDepartureTime             *)
(* A comparator result of NaN counts as 0.  The sort is stable.  When the  *)
(* comparator is not a consistent comparator for the array (an invalid     *)
(* date among at least two different valid ones), ECMAScript leaves the    *)
(* order implementation-defined: every permutation is an outcome.          *)

compareTrains_Reversed(a, b) ==
    LET d == NumMinus(b.actualDepartureTime, a.actualDepartureTime)
    IN  IF d.nan THEN 0 ELSE d.v

compareTrains(a, b) ==
    LET d == NumMinus(a.actualDepartureTime, b.actualDepartureTime)
    IN  IF d.nan THEN 0 ELSE d.v

consistentComparator(s) ==
    LET times == {s[i].actualDepartureTime : i \in 1..Len(s)}
        valid == {t \in times : ~t.nan}
    IN  ~(NaN \in times /\ Cardinality(valid) >= 2)

\* x placed before the first element that compares greater than x
insertSorted(sorted, x) ==
    LET greater == {i \in 1..Len(sorted) : compareTrains(sorted[i], x) > 0}
        at == IF greater = {} THEN Len(sorted) + 1
              ELSE CHOOSE i \in greater : \A j \in greater : i <= j
    IN  SubSeq(sorted, 1, at - 1) \o <<x>> \o SubSeq(sorted, at, Len(sorted))

RECURSIVE stableSort(_)
stableSort(s) ==
    IF s = <<>> THEN <<>>
    ELSE insertSorted(stableSort(SubSeq(s, 1, Len(s) - 1)), s[Len(s)])

permutationsOf(s) ==
    LET n == Len(s)
        perms == {p \in [1..n -> 1..n] : \A i, j \in 1..n : p[i] = p[j] => i = j}
    IN  {[i \in 1..n |-> s[p[i]]] : p \in perms}

sortOutcomes(s) ==
    IF consistentComparator(s) THEN {stableSort(s)} ELSE permutationsOf(s)

keyIndex(k) == CHOOSE i \in 1..Len(LineKeys) : LineKeys[i] = k

\* the loop `for (const line in departures) departures[line].sort(...)`:
\* one sort outcome per line
sortLines(board) ==
    LET outcomes == sortOutcomes(board[LineKeys[1]]) \X sortOutcomes(board[LineKeys[2]])
                    \X sortOutcomes(board[LineKeys[3]]) \X sortOutcomes(board[LineKeys[4]])
                    \X sortOutcomes(board[LineKeys[5]]) \X sortOutcomes(board[LineKeys[6]])
                    \X sortOutcomes(board[LineKeys[7]]) \X sortOutcomes(board[LineKeys[8]])
    IN  {[k \in LineKeySet |-> sorted[keyIndex(k)]] : sorted \in outcomes}

\* formatDepartures(etd) at wall-clock minute `minute`: the boards it can return
formatDepartures(etdDoc, minute) ==
    LET empty == [k \in LineKeySet |-> <<>>]
        pushed == pushDestinations(etdDoc, DateNow(minute), empty)
    IN  sortLines(pushed)

----------------------------------------------------------------------------
(* Direction filter *)

\* const isTrainEastbound = train.direction === "South" || train.direction === "East"
isTrainEastbound(train) ==
    train.direction = "South" \/ train.direction = "East"

\* the filter keeping every train
keepTrain_KeepsAll(isEast, train) == TRUE

\* (isEast && isTrainEastbound) || (!isEast && !isTrainEastbound)
keepTrain(isEast, train) ==
    \/ isEast /\ isTrainEastbound(train)
    \/ ~isEast /\ ~isTrainEastbound(train)

RECURSIVE collectTrains(_, _, _, _)
\* the loop over Object.entries(departures) that fills allTrains
collectTrains(board, keys, isEast, acc) ==
    IF keys = <<>> THEN acc
    ELSE LET color == Head(keys)
             trains == board[color]
             kept == SelectSeq(trains, LAMBDA train : keepTrain(isEast, train))
             tagged == [i \in 1..Len(kept) |->
                           [destination |-> kept[i].destination,
                            minutes |-> kept[i].minutes,
                            departureTime |-> kept[i].departureTime,
                            actualDepartureTime |-> kept[i].actualDepartureTime,
                            length |-> kept[i].length,
                            direction |-> kept[i].direction,
                            lineColor |-> color]]
         IN  collectTrains(board, Tail(keys), isEast, acc \o tagged)

\* the regrouping filing every train under the key of the first one
regroup_UnderFirstKey(allTrains, filtered) ==
    IF allTrains = <<>> THEN filtered
    ELSE <<[color |-> allTrains[1].lineColor, trains |-> allTrains]>>

RECURSIVE regroup(_, _)
\* filteredDepartures as the sequence of its entries, in insertion order
regroup(allTrains, filtered) ==
    IF allTrains = <<>> THEN filtered
    ELSE LET train == Head(allTrains)
             color == train.lineColor
             at == {i \in 1..Len(filtered) : filtered[i].color = color}
             next == IF at = {}
                     THEN Append(filtered, [color |-> color, trains |-> <<train>>])
                     ELSE [i \in 1..Len(filtered) |->
                              IF i \in at
                              THEN [filtered[i] EXCEPT !.trains = Append(@, train)]
                              ELSE filtered[i]]
         IN  regroup(Tail(allTrains), next)

\* filterRoutesByDirection(departures, latitude, longitude): the objects it can
\* return, each as the sequence of its [color, trains] entries
filterRoutesByDirection(board, latitude, longitude) ==
    LET isEast == isEastOfSFBorder(latitude, longitude)
        allTrains == collectTrains(board, LineKeys, isEast, <<>>)
    IN  {regroup(sorted, <<>>) : sorted \in sortOutcomes(allTrains)}

\* departures[color] of a filtered object, the empty sequence when absent
trainsOf(filtered, color) ==
    IF \E i \in 1..Len(filtered) : filtered[i].color = color
    THEN filtered[CHOOSE i \in 1..Len(filtered) : filtered[i].color = color].trains
    ELSE <<>>

----------------------------------------------------------------------------
(* Documents of the two BART endpoints *)

DirectoryDoc(stations) == [root |-> [stations |-> [station |-> stations]]]

\* a directory lists a station once
Directories ==
    {stations \in SeqsUpTo(Stations, MaxStations) :
        \A i, j \in 1..Len(stations) : stations[i] = stations[j] => i = j}

DirectoryDocs ==
    {DirectoryDoc(stations) : stations \in Directories}
    \cup {Null,
          [root |-> [message |-> "error"]],
          [root |-> [stations |-> [count |-> "0"]]]}

\* !json || !json.root || !json.root.stations || !json.root.stations.station
invalidDirectory(json) ==
    \/ json = Null
    \/ "root" \notin DOMAIN json
    \/ "stations" \notin DOMAIN json.root
    \/ "station" \notin DOMAIN json.root.stations

EstimateInputs ==
    [direction : {"North", "South"}, minutes : {"0", "5", "Leaving"}, length : {"10"}]

\* destination codes of the feed: two of the mapping table and one outside it
DestinationInputs == {"RICH", "BERY", "OAKL"}

destinationName(abbreviation) ==
    CASE abbreviation = "RICH" -> "Richmond"
      [] abbreviation = "BERY" -> "Berryessa"
      [] OTHER -> "Oakland Airport"

RECURSIVE sumOfFirst(_, _)
\* counts[1] + ... + counts[i]
sumOfFirst(counts, i) ==
    IF i = 0 THEN 0 ELSE counts[i] + sumOfFirst(counts, i - 1)

\* the etd array of the destinations `codes`, the i-th with counts[i] estimates,
\* taken in order from `estimates`
Feed(codes, counts, estimates) ==
    [i \in 1..Len(codes) |->
        [abbreviation |-> codes[i],
         destination |-> destinationName(codes[i]),
         estimate |-> SubSeq(estimates, sumOfFirst(counts, i - 1) + 1,
                             sumOfFirst(counts, i))]]

\* the shapes of the etd arrays with at most n estimates in all: the
\* destinations, each once, and the number of estimates of each, at least one
FeedShapes(n, abbreviations) ==
    LET orders == {codes \in SeqsUpTo(abbreviations, Cardinality(abbreviations)) :
                      \A i, j \in 1..Len(codes) : codes[i] = codes[j] => i = j}
    IN  UNION {{[codes |-> codes, counts |-> counts] :
                   counts \in {c \in [1..Len(codes) -> 1..n] :
                                  sumOfFirst(c, Len(codes)) <= n}} :
               codes \in orders}

\* the etd arrays with at most n estimates in all
Feeds(n, abbreviations) ==
    UNION {{Feed(shape.codes, shape.counts, estimates) :
               estimates \in [1..sumOfFirst(shape.counts, Len(shape.codes))
                                 -> EstimateInputs]} :
           shape \in FeedShapes(n, abbreviations)}

DeparturesDoc(etdDoc) == [root |-> [station |-> <<[abbr |-> "stn", etd |-> etdDoc]>>]]

\* the feeds run() is given: every feed of at most one estimate, and one feed
\* of two destinations and three estimates
RunFeeds ==
    Feeds(1, DestinationInputs)
    \cup {<<[abbreviation |-> "RICH", destination |-> "Richmond",
            estimate |-> <<[direction |-> "North", minutes |-> "0", length |-> "10"],
                           [direction |-> "North", minutes |-> "12", length |-> "10"]>>],
           [abbreviation |-> "BERY", destination |-> "Berryessa",
            estimate |-> <<[direction |-> "North", minutes |-> "5", length |-> "10"]>>]>>}

DeparturesDocs ==
    {DeparturesDoc(f) : f \in RunFeeds}
    \cup {Null,
          [root |-> [message |-> "error"]],
          [root |-> [station |-> <<>>]],
          [root |-> [station |-> <<[abbr |-> "stn"]>>]]}

\* !json || !json.root || !json.root.station || !json.root.station[0]
\*   || !json.root.station[0].etd
invalidDepartures(json) ==
    \/ json = Null
    \/ "root" \notin DOMAIN json
    \/ "station" \notin DOMAIN json.root
    \/ Len(json.root.station) = 0
    \/ "etd" \notin DOMAIN json.root.station[1]

----------------------------------------------------------------------------
(* Location cache *)

Absent == [kind |-> "absent"]
Garbage == [kind |-> "string", text |-> "garbage"]

\* JSON.stringify(locationData)
JSONstringify(locationData) ==
    [kind |-> "string", text |-> "json",
     latitude |-> locationData.latitude,
     longitude |-> locationData.longitude,
     timestamp |-> locationData.timestamp]

JSONparses(string) == string.text = "json"

\* JSON.parse(string): a new object
JSONparse(string, ref) ==
    [ref |-> ref, latitude |-> string.latitude, longitude |-> string.longitude,
     timestamp |-> string.timestamp]

\* storeLastLocation writing the latitude into both fields
storeLastLocation_LatitudeTwice(loc, minute) ==
    JSONstringify([latitude |-> loc.latitude, longitude |-> loc.latitude,
                   timestamp |-> minute * 60000])

\* the string storeLastLocation hands to Keychain.set
storeLastLocation(loc, minute) ==
    JSONstringify([latitude |-> loc.latitude, longitude |-> loc.longitude,
                   timestamp |-> minute * 60000])

\* Keychain.get('lastKnownLocation') throws when the keychain cannot be read
\* and when there is no such key
KeychainGetThrows(stored, readOk) == ~readOk \/ stored = Absent

\* getLastLocation without its `return JSON.parse(locationData)`
getLastLocation_ReturnsNothing(stored, readOk, ref) == Null

\* getLastLocation falling back to the San Francisco centre when nothing is stored
getLastLocation_DefaultsToSF(stored, readOk, ref) ==
    IF ~readOk \/ stored = Absent
    THEN [ref |-> ref, latitude |-> K_SF_LATITUDE, longitude |-> K_SF_LONGITUDE,
          timestamp |-> 0]
    ELSE IF JSONparses(stored) THEN JSONparse(stored, ref)
    ELSE Null

\* getLastLocation answering a string it cannot parse with the San Francisco
\* centre
getLastLocation_UnparsableIsSF(stored, readOk, ref) ==
    IF KeychainGetThrows(stored, readOk) THEN Null
    ELSE IF JSONparses(stored) THEN JSONparse(stored, ref)
    ELSE [ref |-> ref, latitude |-> K_SF_LATITUDE, longitude |-> K_SF_LONGITUDE,
          timestamp |-> 0]

\* getLastLocation(): Keychain.get throws or returns the stored string; a
\* result object is allocated at `ref`
getLastLocation(stored, readOk, ref) ==
    IF KeychainGetThrows(stored, readOk) THEN Null
    ELSE IF JSONparses(stored) THEN JSONparse(stored, ref)
    ELSE Null

\* a === b on two values that are objects or null
strictEquals(a, b) ==
    IF a = Null \/ b = Null THEN a = b ELSE a.ref = b.ref

----------------------------------------------------------------------------
(* Rendering *)

\* color.endsWith("E")
endsWithE(color) == color \in {"RedE", "YellowE", "OrangeE", "GreenE"}

\* Number.isNaN(value) for a value of the feed: `minutes` is a string there,
\* and Number.isNaN is false of everything that is not the number NaN
NumberIsNaN(value) == FALSE

\* the text of the next train of a line
nextTrainText(train) ==
    IF train.minutes = "0" \/ NumberIsNaN(train.minutes)
    THEN [leavingNow |-> TRUE]
    ELSE [leavingNow |-> FALSE, minutes |-> train.minutes,
          departureTime |-> train.departureTime]

\* the line stacks createWidget adds, one per entry with trains
widgetRows(filtered) ==
    LET shown == SelectSeq(filtered, LAMBDA entry : Len(entry.trains) > 0)
    IN  [i \in 1..Len(shown) |->
            [color |-> shown[i].color,
             eastArrow |-> endsWithE(shown[i].color),
             next |-> nextTrainText(shown[i].trains[1]),
             more |-> [j \in 1..(IF Len(shown[i].trains) > 3 THEN 2
                                 ELSE Len(shown[i].trains) - 1) |->
                          shown[i].trains[j + 1].departureTime]]]

\* createTable evaluates `nextTrain`, which it never declares, for the first
\* train of a line unless that train's minutes are "0": a ReferenceError
tableThrows(filtered) ==
    \E i \in 1..Len(filtered) :
        /\ Len(filtered[i].trains) > 0
        /\ filtered[i].trains[1].minutes # "0"

\* the rows createTable adds for the lines, when it does not throw
tableRows(filtered) ==
    LET shown == SelectSeq(filtered, LAMBDA entry : Len(entry.trains) > 0)
    IN  [i \in 1..Len(shown) |->
            [color |-> shown[i].color,
             trains |-> [j \in 1..(IF Len(shown[i].trains) > 3 THEN 3
                                   ELSE Len(shown[i].trains)) |->
                            [destination |-> shown[i].trains[j].destination,
                             text |-> IF j = 1 THEN [leavingNow |-> TRUE]
                                      ELSE [leavingNow |-> FALSE,
                                            departureTime |->
                                                shown[i].trains[j].departureTime],
                             direction |-> shown[i].trains[j].direction]]]]

hasTrains(filtered) == \E i \in 1..Len(filtered) : Len(filtered[i].trains) > 0

\* the widget or table of a completed invocation
ResultView(widget, filtered, cacheNote) ==
    [kind |-> IF widget THEN "widget" ELSE "table",
     rows |-> IF widget THEN widgetRows(filtered) ELSE tableRows(filtered),
     noTrains |-> ~hasTrains(filtered),
     cacheNote |-> cacheNote]

\* 'BART API Error': the error widget or the alert of the inner catch
ApiErrorView(widget) ==
    [kind |-> IF widget THEN "apiErrorWidget" ELSE "apiErrorAlert"]

\* 'Waiting for location' widget or 'Location Not Available' alert
NoLocationView(widget) ==
    [kind |-> IF widget THEN "waitingWidget" ELSE "locationAlert"]

\* the terminal outcome an invocation has presented, "none" before
outcome ==
    IF view = <<>> THEN "none"
    ELSE CASE view[Len(view)].kind \in {"widget", "table"} -> "Result"
           [] view[Len(view)].kind \in {"apiErrorWidget", "apiErrorAlert"} -> "ApiError"
           [] OTHER -> "NoLocation"

----------------------------------------------------------------------------
(* run() *)

\* minutes that can pass before an invocation starts
Elapsed == {1, 120}

\* what a request has come back with: nothing yet, a failure, or a document
NoReply == [kind |-> "none"]
Failed == [kind |-> "failed"]

\* the calls of Location.current, of the two requests and of the keychain, the
\* station the departures were requested for, what Location.current and the
\* requests returned, whether Keychain.set threw, and for each Keychain.get
\* whether it threw
NoCalls ==
    [location |-> 0, directory |-> 0, departures |-> 0,
     keychainGet |-> 0, keychainSet |-> 0, orig |-> "",
     locationReply |-> NoReply, keychainSetThrew |-> FALSE,
     keychainGetThrew |-> <<>>,
     directoryReply |-> NoReply, departuresReply |-> NoReply]

EmptyBoard == [k \in LineKeySet |-> <<>>]

Init ==
    /\ runsInWidget = TRUE
    /\ pc = "idle"
    /\ clock = 0
    /\ runs = 0
    /\ keychain \in {Absent, Garbage}
    /\ nextRef = 1
    /\ location = Null
    /\ liveFix = "pending"
    /\ closest = Null
    /\ etd = <<>>
    /\ allDepartures = EmptyBoard
    /\ departures = <<>>
    /\ view = <<>>
    /\ log = <<>>
    /\ calls = NoCalls

\* run() asking for the station list while Location.current() is still pending
Start_DirectoryInParallel ==
    /\ pc \in {"idle", "done"}
    /\ runs < MaxRuns
    /\ runs' = runs + 1
    /\ \E widget \in BOOLEAN : runsInWidget' = widget
    /\ \E dt \in Elapsed : clock' = clock + dt
    /\ pc' = "awaitLocation"
    /\ nextRef' = 1
    /\ location' = Null
    /\ liveFix' = "pending"
    /\ closest' = Null
    /\ etd' = <<>>
    /\ allDepartures' = EmptyBoard
    /\ departures' = <<>>
    /\ view' = <<>>
    /\ log' = <<>>
    /\ calls' = [NoCalls EXCEPT !.location = 1, !.directory = 1]
    /\ UNCHANGED keychain

\* run() is entered and calls Location.current()
Start ==
    /\ pc \in {"idle", "done"}
    /\ runs < MaxRuns
    /\ runs' = runs + 1
    /\ \E widget \in BOOLEAN : runsInWidget' = widget
    /\ \E dt \in Elapsed : clock' = clock + dt
    /\ pc' = "awaitLocation"
    /\ nextRef' = 1
    /\ location' = Null
    /\ liveFix' = "pending"
    /\ closest' = Null
    /\ etd' = <<>>
    /\ allDepartures' = EmptyBoard
    /\ departures' = <<>>
    /\ view' = <<>>
    /\ log' = <<>>
    /\ calls' = [NoCalls EXCEPT !.location = 1]
    /\ UNCHANGED keychain

\* the inner catch presenting its error and throwing again, so that the outer
\* catch presents as well
ApiError_ThenOuterCatch(messages) ==
    /\ view' = view \o <<ApiErrorView(runsInWidget), NoLocationView(runsInWidget)>>
    /\ log' = log \o messages
              \o <<IF runsInWidget THEN "Error creating widget"
                   ELSE "Error creating table",
                   IF runsInWidget THEN "Widget error" ELSE "Table view error">>
    /\ pc' = "done"

\* the inner catch: the 'BART API Error' widget or alert
ApiError(messages) ==
    /\ view' = Append(view, ApiErrorView(runsInWidget))
    /\ log' = log \o messages
              \o <<IF runsInWidget THEN "Error creating widget"
                   ELSE "Error creating table">>
    /\ pc' = "done"

\* findClosestStation(location) is called: loadStationList issues its request
IssueDirectory(callsNow) ==
    /\ calls' = [callsNow EXCEPT !.directory = @ + 1]
    /\ pc' = "awaitDirectory"

\* the catch around Location.current() and storeLastLocation (lines 594-600);
\* getLastLocation allocates its result at `ref`
Fallback(readOk, ref, callsNow) ==
    LET cached == getLastLocation(keychain, readOk, ref)
        readLog == IF KeychainGetThrows(keychain, readOk) \/ ~JSONparses(keychain)
                   THEN <<"Error retrieving last location">> ELSE <<>>
        readCalls == [callsNow EXCEPT
                         !.keychainGet = @ + 1,
                         !.keychainGetThrew = Append(@, KeychainGetThrows(keychain, readOk))]
    IN  /\ location' = cached
        /\ IF cached = Null
           THEN /\ view' = Append(view, NoLocationView(runsInWidget))
                /\ log' = log \o <<"Error getting current location">> \o readLog
                          \o <<IF runsInWidget THEN "Widget error"
                               ELSE "Table view error">>
                /\ pc' = "done"
                /\ calls' = readCalls
                /\ nextRef' = ref
           ELSE /\ IssueDirectory(readCalls)
                /\ log' = log \o <<"Error getting current location">>
                /\ nextRef' = ref + 1
                /\ UNCHANGED view

\* Location.current() resolves with a fix at `coordinate`; storeLastLocation
\* then writes the keychain (setOk) or Keychain.set throws
LocationResolved(coordinate, setOk) ==
    /\ pc = "awaitLocation"
    /\ liveFix' = "ok"
    /\ LET live == [ref |-> nextRef, latitude |-> coordinate.latitude,
                    longitude |-> coordinate.longitude]
           setCalls == [calls EXCEPT !.keychainSet = @ + 1,
                                     !.locationReply = coordinate,
                                     !.keychainSetThrew = ~setOk]
       IN  IF setOk
           THEN /\ keychain' = storeLastLocation(live, clock)
                /\ location' = live
                /\ nextRef' = nextRef + 1
                /\ IssueDirectory(setCalls)
                /\ UNCHANGED <<view, log>>
           ELSE /\ \E readOk \in BOOLEAN : Fallback(readOk, nextRef + 1, setCalls)
                /\ UNCHANGED keychain
    /\ UNCHANGED <<runsInWidget, clock, runs, closest, etd, allDepartures, departures>>

\* Location.current() rejects
LocationRejected(readOk) ==
    /\ pc = "awaitLocation"
    /\ liveFix' = "failed"
    /\ Fallback(readOk, nextRef, [calls EXCEPT !.locationReply = Failed])
    /\ UNCHANGED <<runsInWidget, clock, runs, keychain, closest, etd,
                   allDepartures, departures>>

\* the request of loadStationList resolves with the document `json`
DirectoryResolved(json) ==
    /\ pc = "awaitDirectory"
    /\ IF invalidDirectory(json)
       THEN /\ ApiError(<<"Invalid API response structure",
                          "Error loading station list">>)
            /\ calls' = [calls EXCEPT !.directoryReply = json]
            /\ UNCHANGED closest
       ELSE LET found == findClosestStation(json.root.stations.station, location)
            IN  /\ closest' = found
                /\ IF found.station = Null
                   THEN \* closest.station.name: a TypeError
                        /\ ApiError(<<>>)
                        /\ calls' = [calls EXCEPT !.directoryReply = json]
                   ELSE \* getStationDepartures(closest.station) issues its request
                        /\ calls' = [calls EXCEPT !.directoryReply = json,
                                                  !.departures = @ + 1,
                                                  !.orig = found.station.abbr]
                        /\ pc' = "awaitDepartures"
                        /\ UNCHANGED <<view, log>>
    /\ UNCHANGED <<runsInWidget, clock, runs, keychain, nextRef, location, liveFix,
                   etd, allDepartures, departures>>

\* the station-list failure escaping to the outer catch of run()
DirectoryRejected_OuterCatch ==
    /\ pc = "awaitDirectory"
    /\ view' = Append(view, NoLocationView(runsInWidget))
    /\ log' = log \o <<"Error loading station list",
                       IF runsInWidget THEN "Widget error" ELSE "Table view error">>
    /\ pc' = "done"
    /\ calls' = [calls EXCEPT !.directoryReply = Failed]
    /\ UNCHANGED <<runsInWidget, clock, runs, keychain, nextRef, location, liveFix,
                   closest, etd, allDepartures, departures>>

\* loadStationList asking again after a failed request
DirectoryRejected_Retry ==
    /\ pc = "awaitDirectory"
    /\ calls.directory < 2
    /\ calls' = [calls EXCEPT !.directory = @ + 1]
    /\ log' = log \o <<"Error loading station list">>
    /\ UNCHANGED <<runsInWidget, pc, clock, runs, keychain, nextRef, location, liveFix,
                   closest, etd, allDepartures, departures, view>>

\* the request of loadStationList fails
DirectoryRejected ==
    /\ pc = "awaitDirectory"
    /\ ApiError(<<"Error loading station list">>)
    /\ calls' = [calls EXCEPT !.directoryReply = Failed]
    /\ UNCHANGED <<runsInWidget, clock, runs, keychain, nextRef, location, liveFix,
                   closest, etd, allDepartures, departures>>

\* the request of getStationDepartures resolves with the document `json`; the
\* rest of createWidget / createTable and of run() follows
DeparturesResolved(json, readOk) ==
    /\ pc = "awaitDepartures"
    /\ IF invalidDepartures(json)
       THEN /\ ApiError(<<"Invalid API response structure",
                          "Error getting station departures">>)
            /\ calls' = [calls EXCEPT !.departuresReply = json]
            /\ UNCHANGED <<etd, allDepartures, departures, nextRef>>
       ELSE \E board \in formatDepartures(json.root.station[1].etd, clock) :
            \E filtered \in filterRoutesByDirection(
                                board, location.latitude, location.longitude) :
                /\ etd' = json.root.station[1].etd
                /\ allDepartures' = board
                /\ departures' = filtered
                /\ IF ~runsInWidget /\ tableThrows(filtered)
                   THEN /\ ApiError(<<>>)
                        /\ calls' = [calls EXCEPT !.departuresReply = json]
                        /\ UNCHANGED nextRef
                   ELSE LET last == getLastLocation(keychain, readOk, nextRef)
                        IN  /\ view' = Append(view,
                                   ResultView(runsInWidget, filtered,
                                              strictEquals(location, last)))
                            /\ calls' = [calls EXCEPT
                                   !.departuresReply = json,
                                   !.keychainGet = @ + 1,
                                   !.keychainGetThrew =
                                       Append(@, KeychainGetThrows(keychain, readOk))]
                            /\ nextRef' = IF last = Null THEN nextRef ELSE nextRef + 1
                            /\ log' = log \o
                                   (IF KeychainGetThrows(keychain, readOk)
                                       \/ ~JSONparses(keychain)
                                    THEN <<"Error retrieving last location">> ELSE <<>>)
                            /\ pc' = "done"
    /\ UNCHANGED <<runsInWidget, clock, runs, keychain, location, liveFix, closest>>

\* getStationDepartures swallowing the failure and returning no departures
DeparturesRejected_EmptyBoard ==
    /\ pc = "awaitDepartures"
    /\ view' = Append(view, ResultView(runsInWidget, <<>>, FALSE))
    /\ log' = log \o <<"Error getting station departures">>
    /\ pc' = "done"
    /\ calls' = [calls EXCEPT !.departuresReply = Failed, !.keychainGet = @ + 1,
                              !.keychainGetThrew = Append(@, FALSE)]
    /\ UNCHANGED <<runsInWidget, clock, runs, keychain, nextRef, location, liveFix,
                   closest, etd, allDepartures, departures>>

\* the request of getStationDepartures fails
DeparturesRejected ==
    /\ pc = "awaitDepartures"
    /\ ApiError(<<"Error getting station departures">>)
    /\ calls' = [calls EXCEPT !.departuresReply = Failed]
    /\ UNCHANGED <<runsInWidget, clock, runs, keychain, nextRef, location, liveFix,
                   closest, etd, allDepartures, departures>>

Next ==
    \/ Start
    \/ \E coordinate \in Coordinates, setOk \in BOOLEAN :
           LocationResolved(coordinate, setOk)
    \/ \E readOk \in BOOLEAN : LocationRejected(readOk)
    \/ \E json \in DirectoryDocs : DirectoryResolved(json)
    \/ DirectoryRejected
    \/ \E json \in DeparturesDocs, readOk \in BOOLEAN : DeparturesResolved(json, readOk)
    \/ DeparturesRejected

Spec == Init /\ [][Next]_vars

\* one of the three awaited calls of run() (Location.current(), the station
\* list request, the departures request) returns or fails
Reply ==
    \/ \E coordinate \in Coordinates, setOk \in BOOLEAN :
           LocationResolved(coordinate, setOk)
    \/ \E readOk \in BOOLEAN : LocationRejected(readOk)
    \/ \E json \in DirectoryDocs : DirectoryResolved(json)
    \/ DirectoryRejected
    \/ \E json \in DeparturesDocs, readOk \in BOOLEAN : DeparturesResolved(json, readOk)
    \/ DeparturesRejected

\* the last invocation followed, entered with any content of the keychain: none,
\* an unparsable one, or the fix an earlier invocation stored
FairInit ==
    /\ runsInWidget = TRUE
    /\ pc = "idle"
    /\ runs = MaxRuns - 1
    /\ \/ keychain \in {Absent, Garbage} /\ clock = 0
       \/ \E coordinate \in {AtSF, EastOfSF} :
              /\ keychain = storeLastLocation(coordinate, 1)
              /\ clock = 1
    /\ nextRef = 1
    /\ location = Null
    /\ liveFix = "pending"
    /\ closest = Null
    /\ etd = <<>>
    /\ allDepartures = EmptyBoard
    /\ departures = <<>>
    /\ view = <<>>
    /\ log = <<>>
    /\ calls = NoCalls

\* run() under collaborators that always answer: an awaited call does not
\* stay pending for ever.  When run() is entered again is left to the host.
FairSpec == FairInit /\ [][Next]_vars /\ WF_vars(Reply)

----------------------------------------------------------------------------
(* The aggregation and filter pipeline on its own: formatDepartures and    *)
(* filterRoutesByDirection applied, at 11:57, to every feed of at most     *)
(* MaxTrains estimates, for a user of each direction.                      *)

\* one coordinate the filter takes for Westbound and one it takes for Eastbound
PipelineCoordinates == {AtSF, EastOfSF}

PipelineInit ==
    /\ runsInWidget = TRUE
    /\ pc = "feed"
    /\ clock = 717
    /\ runs = 0
    /\ keychain = Absent
    /\ nextRef = 2
    /\ \E coordinate \in PipelineCoordinates :
           location = [ref |-> 1, latitude |-> coordinate.latitude,
                       longitude |-> coordinate.longitude]
    /\ liveFix = "ok"
    /\ closest = Null
    /\ \E shape \in FeedShapes(MaxTrains, DestinationInputs) :
       \E estimates \in [1..sumOfFirst(shape.counts, Len(shape.codes)) -> EstimateInputs] :
           etd = Feed(shape.codes, shape.counts, estimates)
    /\ allDepartures = EmptyBoard
    /\ departures = <<>>
    /\ view = <<>>
    /\ log = <<>>
    /\ calls = NoCalls

Format ==
    /\ pc = "feed"
    /\ allDepartures' \in formatDepartures(etd, clock)
    /\ pc' = "formatted"
    /\ UNCHANGED <<runsInWidget, clock, runs, keychain, nextRef, location, liveFix,
                   closest, etd, departures, view, log, calls>>

Filter ==
    /\ pc = "formatted"
    /\ departures' \in filterRoutesByDirection(
                           allDepartures, location.latitude, location.longitude)
    /\ pc' = "filtered"
    /\ UNCHANGED <<runsInWidget, clock, runs, keychain, nextRef, location, liveFix,
                   closest, etd, allDepartures, view, log, calls>>

PipelineNext == Format \/ Filter

PipelineSpec == PipelineInit /\ [][PipelineNext]_vars

----------------------------------------------------------------------------
(* The direction classification: the pipeline applied to every feed of at  *)
(* most one estimate for every coordinate around the border.               *)

ClassifyInit ==
    /\ runsInWidget = TRUE
    /\ pc = "feed"
    /\ clock = 0
    /\ runs = 0
    /\ keychain = Absent
    /\ nextRef = 2
    /\ \E coordinate \in BorderCoordinates :
           location = [ref |-> 1, latitude |-> coordinate.latitude,
                       longitude |-> coordinate.longitude]
    /\ liveFix = "ok"
    /\ closest = Null
    /\ etd \in Feeds(1, DestinationInputs)
    /\ allDepartures = EmptyBoard
    /\ departures = <<>>
    /\ view = <<>>
    /\ log = <<>>
    /\ calls = NoCalls

ClassifySpec == ClassifyInit /\ [][PipelineNext]_vars

----------------------------------------------------------------------------
(* Properties *)

Range(s) == {s[i] : i \in 1..Len(s)}

EastKeys == {"RedE", "YellowE", "OrangeE", "GreenE"}
WestKeys == {"RedW", "YellowW", "OrangeW", "GreenW"}

isEastUser == isEastOfSFBorder(location.latitude, location.longitude)

\* C1: the filter keeps exactly the departures filed under the keys of the
\* user's direction: every departure of an Eastbound key and none of a
\* Westbound key when the user is classified Eastbound, and the reverse
\* otherwise.
C1_FilterKeepsKeysOfUserDirection ==
    pc = "filtered" =>
        \A k \in LineKeySet :
            IF (k \in EastKeys) = isEastUser
            THEN Len(trainsOf(departures, k)) = Len(allDepartures[k])
            ELSE trainsOf(departures, k) = <<>>

\* C2: the filtered board never has a populated Eastbound key and a populated
\* Westbound key at once.
C2_NeverBothDirections ==
    pc = "filtered" =>
        ~ /\ \E k \in EastKeys : trainsOf(departures, k) # <<>>
          /\ \E k \in WestKeys : trainsOf(departures, k) # <<>>

holdsCoordinate(stored) == stored # Absent /\ JSONparses(stored)

\* C3: when Location.current() fails and the keychain holds a coordinate,
\* whatever its timestamp, the invocation goes on with exactly that coordinate
\* (the directory request is issued, the outcome is not NoLocation); only a
\* Keychain.get that throws leaves it without a location.
C3_CachedCoordinateIsUsed ==
    (liveFix = "failed" /\ holdsCoordinate(keychain)) =>
        IF location = Null
        THEN "Error retrieving last location" \in Range(log)
        ELSE /\ location.latitude = keychain.latitude
             /\ location.longitude = keychain.longitude
             /\ calls.directory = 1
             /\ outcome # "NoLocation"

\* a result built from a coordinate cached at least two hours before
C3_Witness ==
    /\ liveFix = "failed"
    /\ holdsCoordinate(keychain)
    /\ clock * 60000 - keychain.timestamp >= 120 * 60000
    /\ location # Null
    /\ location.latitude = keychain.latitude
    /\ location.longitude = keychain.longitude
    /\ outcome = "Result"

\* C4: a presented widget or table carries the 'Using last known location'
\* note if and only if the live fix failed (the coordinate then came from the
\* keychain).
C4_CacheNoteIffCached ==
    (pc = "done" /\ outcome = "Result") =>
        (view[Len(view)].cacheNote <=> liveFix = "failed")

\* C5: when Location.current() fails and nothing is stored in the keychain, the
\* invocation ends with the NoLocation presentation of its mode and has issued
\* neither the directory request nor the departures request.
C5_NoLocationWithoutCache ==
    (liveFix = "failed" /\ keychain = Absent) =>
        /\ pc = "done"
        /\ view = <<NoLocationView(runsInWidget)>>
        /\ calls.directory = 0
        /\ calls.departures = 0

C5_Witness ==
    /\ liveFix = "failed"
    /\ keychain = Absent
    /\ outcome = "NoLocation"
    /\ calls.location = 1

\* a directory document without root.stations.station
withoutStationList(json) ==
    \/ json = Null
    \/ "root" \notin DOMAIN json
    \/ "stations" \notin DOMAIN json.root
    \/ "station" \notin DOMAIN json.root.stations

directoryFailed ==
    \/ calls.directoryReply = Failed
    \/ calls.directoryReply # NoReply /\ withoutStationList(calls.directoryReply)

\* C6: when the directory request fails or its document lacks
\* root.stations.station, the invocation ends with the 'BART API Error'
\* presentation, the failure is logged as one of the station list and not of the
\* departures, and no departures request is issued.
C6_DirectoryFailureIsApiError ==
    directoryFailed =>
        /\ pc = "done"
        /\ view = <<ApiErrorView(runsInWidget)>>
        /\ "Error loading station list" \in Range(log)
        /\ "Error getting station departures" \notin Range(log)
        /\ calls.departures = 0

C6_Witness ==
    /\ calls.directoryReply = [root |-> [message |-> "error"]]
    /\ outcome = "ApiError"
    /\ calls.departures = 0

\* a departures document without root.station[0].etd
withoutEtd(json) ==
    \/ json = Null
    \/ "root" \notin DOMAIN json
    \/ "station" \notin DOMAIN json.root
    \/ json.root.station = <<>>
    \/ "etd" \notin DOMAIN json.root.station[1]

departuresFailed ==
    \/ calls.departuresReply = Failed
    \/ calls.departuresReply # NoReply /\ withoutEtd(calls.departuresReply)

\* C7: when the departures request fails or its document lacks
\* root.station[0].etd, the invocation ends with the 'BART API Error'
\* presentation and nothing else, the failure is logged as one of the
\* departures and not of the station list, and no departure is kept.
C7_DeparturesFailureIsApiError ==
    departuresFailed =>
        /\ pc = "done"
        /\ view = <<ApiErrorView(runsInWidget)>>
        /\ "Error getting station departures" \in Range(log)
        /\ "Error loading station list" \notin Range(log)
        /\ departures = <<>>
        /\ allDepartures = EmptyBoard

C7_Witness ==
    /\ calls.departuresReply = [root |-> [station |-> <<[abbr |-> "stn"]>>]]
    /\ outcome = "ApiError"
    /\ calls.departures = 1

\* C8: for an empty station directory findClosestStation returns no result
\* and the invocation ends in the InvalidInput outcome.
C8_EmptyDirectoryIsInvalidInput ==
    (pc = "done" /\ calls.directoryReply = DirectoryDoc(<<>>)) =>
        /\ closest = Null
        /\ outcome = "InvalidInput"

directoryStations == calls.directoryReply.root.stations.station

distanceTo(station) ==
    calculateDistance(location.latitude, location.longitude,
                      parseFloat(station.gtfs_latitude),
                      parseFloat(station.gtfs_longitude))

\* C9: for a directory with at least one station, findClosestStation returns
\* the first station, in directory order, among those at the least distance
\* from the current coordinate, together with that distance.
C9_ClosestIsFirstMinimum ==
    (calls.directoryReply \notin {NoReply, Failed}
        /\ ~withoutStationList(calls.directoryReply)
        /\ directoryStations # <<>>) =>
        \E i \in 1..Len(directoryStations) :
            /\ closest.station = directoryStations[i]
            /\ closest.distance = distanceTo(directoryStations[i])
            /\ \A j \in 1..Len(directoryStations) :
                   ~NumLess(distanceTo(directoryStations[j]), closest.distance)
            /\ \A j \in 1..(i - 1) :
                   distanceTo(directoryStations[j]) # closest.distance

\* two different stations at the same least distance: the first is returned
C9_Witness ==
    /\ calls.directoryReply \notin {NoReply, Failed}
    /\ ~withoutStationList(calls.directoryReply)
    /\ Len(directoryStations) = 2
    /\ directoryStations[1] # directoryStations[2]
    /\ distanceTo(directoryStations[1]) = distanceTo(directoryStations[2])
    /\ closest.station = directoryStations[1]
    /\ pc = "awaitDepartures"

\* C10: an invocation issues the location request, the directory request and
\* the departures request at most once each, and a failed directory or
\* departures request ends it at once with the 'BART API Error' presentation.
C10_NoRetries ==
    /\ calls.location <= 1
    /\ calls.directory <= 1
    /\ calls.departures <= 1
    /\ (directoryFailed \/ departuresFailed) => (pc = "done" /\ outcome = "ApiError")

C10_Witness ==
    /\ calls.departuresReply = Failed
    /\ calls.location = 1
    /\ calls.directory = 1
    /\ calls.departures = 1
    /\ outcome = "ApiError"

\* the keychain entry is the one storeLastLocation writes for the fix of the
\* current invocation
holdsLiveFix ==
    /\ holdsCoordinate(keychain)
    /\ keychain.latitude = calls.locationReply.latitude
    /\ keychain.longitude = calls.locationReply.longitude
    /\ keychain.timestamp = clock * 60000

\* C11 (as claimed): the keychain holds no coordinate until a live fix
\* succeeds; every successful live fix overwrites it with the coordinate of the
\* fix, and nothing else changes it, so that after any sequence of invocations
\* it holds the coordinate of the most recent successful fix.
C11_CacheHoldsLastLiveFix ==
    /\ ~holdsCoordinate(keychain)
    /\ [](liveFix = "ok" => holdsLiveFix)
    /\ [][keychain' # keychain => liveFix' = "ok"]_vars

\* C11 (amended): the keychain holds no coordinate until a live fix is stored;
\* every successful live fix whose Keychain.set does not throw overwrites it
\* with the coordinate of the fix and the current time, and nothing else
\* changes it: a failed fix, and a fix whose write throws, leave it as it was.
C11_CacheHoldsLastStoredFix ==
    /\ ~holdsCoordinate(keychain)
    /\ []((liveFix = "ok" /\ ~calls.keychainSetThrew) => holdsLiveFix)
    /\ [][keychain' # keychain =>
              (liveFix' = "ok" /\ ~calls'.keychainSetThrew)]_vars

\* the second invocation's fix has replaced what the first one stored
C11_Witness ==
    /\ runs = 2
    /\ liveFix = "ok"
    /\ ~calls.keychainSetThrew
    /\ holdsLiveFix
    /\ clock >= 2

\* C12: getLastLocation never throws.  In the fallback of a failed live fix it
\* yields the stored coordinate, or null when Keychain.get throws, when nothing
\* is stored or when the stored string does not parse, and the invocation then
\* ends with the NoLocation presentation alone; a Keychain.get that throws in
\* the read after rendering does not turn the result into an error.
C12_GetLastLocationDegradesToAbsent ==
    /\ liveFix = "failed" =>
           IF calls.keychainGetThrew[1] \/ ~holdsCoordinate(keychain)
           THEN /\ location = Null
                /\ pc = "done"
                /\ view = <<NoLocationView(runsInWidget)>>
                /\ calls.directory = 0
           ELSE /\ location # Null
                /\ location.latitude = keychain.latitude
                /\ location.longitude = keychain.longitude
                /\ location.timestamp = keychain.timestamp
    /\ (location # Null /\ calls.keychainGetThrew # <<>>
           /\ calls.keychainGetThrew[Len(calls.keychainGetThrew)]) =>
           /\ pc = "done"
           /\ view = <<ResultView(runsInWidget, departures, FALSE)>>

\* a coordinate is stored, the live fix fails and Keychain.get throws
C12_Witness ==
    /\ liveFix = "failed"
    /\ holdsCoordinate(keychain)
    /\ calls.keychainGetThrew = <<TRUE>>
    /\ location = Null
    /\ outcome = "NoLocation"

\* the departures document came back and has root.station[0].etd
departuresArrived ==
    /\ calls.departuresReply \notin {NoReply, Failed}
    /\ ~withoutEtd(calls.departuresReply)

\* every train of the aggregated board runs against the user's direction
noneSurvives ==
    \A k \in LineKeySet : \A i \in 1..Len(allDepartures[k]) :
        isTrainEastbound(allDepartures[k][i]) # isEastUser

\* C13: when no departure survives the direction filter, the filtered board
\* has no populated key and the invocation ends with the widget or table alone,
\* showing 'No trains at this time' and no line; it does not end in the
\* 'BART API Error' or the NoLocation presentation.
C13_EmptyBoardIsSuccess ==
    (departuresArrived /\ noneSurvives) =>
        /\ \A k \in LineKeySet : trainsOf(departures, k) = <<>>
        /\ pc = "done"
        /\ Len(view) = 1
        /\ view[1].kind = (IF runsInWidget THEN "widget" ELSE "table")
        /\ view[1].noTrains
        /\ view[1].rows = <<>>

\* the feed had trains, all against the user's direction, in table mode
C13_Witness ==
    /\ departuresArrived
    /\ noneSurvives
    /\ \E k \in LineKeySet : allDepartures[k] # <<>>
    /\ ~runsInWidget
    /\ outcome = "Result"
    /\ view[1].noTrains

\* the trains of a bucket that run eastbound (wanted) or not
trainsRunning(trains, east) ==
    SelectSeq(trains, LAMBDA train : isTrainEastbound(train) = east)

\* C14: a coordinate at most 7 miles from the reference point is classified
\* Westbound whatever its longitude; any other coordinate is classified
\* Eastbound exactly when its longitude is strictly greater than the reference
\* longitude.  The filter keeps the trains of the direction so classified.
C14_BorderThenLongitude ==
    pc = "filtered" =>
        LET distanceFromSF == calculateDistanceFromSF(location.latitude,
                                                      location.longitude)
            east == IF distanceFromSF <= 7000 THEN FALSE
                    ELSE location.longitude > 0 - 122419400
        IN  \A k \in LineKeySet :
                Len(trainsOf(departures, k)) = Len(trainsRunning(allDepartures[k], east))

\* due north of the reference point, beyond the border: the longitude is equal
\* and the northbound train is kept
C14_Witness ==
    /\ pc = "filtered"
    /\ location.longitude = K_SF_LONGITUDE
    /\ calculateDistanceFromSF(location.latitude, location.longitude) > 7000
    /\ \E k \in LineKeySet :
           /\ trainsOf(departures, k) # <<>>
           /\ trainsOf(departures, k)[1].direction = "North"

\* a `minutes` value of the feed that is zero or not a number
arriving(minutes) == parseInt(minutes).nan \/ parseInt(minutes) = Num(0)

\* the text rendered for the next train of the i-th line of a presented result
nextTrainShown(i) ==
    IF runsInWidget THEN view[1].rows[i].next ELSE view[1].rows[i].trains[1].text

\* C15: a next train whose minutes are zero or non-numeric is rendered as
\* 'Leaving Now', in the widget and in the table, and a board whose next trains
\* all carry such a value ends with the result, not with an error.
C15_ArrivingIsLeavingNow ==
    (pc = "done" /\ departuresArrived) =>
        /\ outcome = "Result" =>
               \A i \in 1..Len(departures) :
                   arriving(departures[i].trains[1].minutes) =>
                       nextTrainShown(i).leavingNow
        /\ (\A i \in 1..Len(departures) :
                arriving(departures[i].trains[1].minutes)) =>
               outcome = "Result"

\* the mapping table: (destination code, raw direction, key)
MappingTable ==
    { <<"ANTC", "North", "YellowE">>, <<"ANTC", "South", "YellowW">>,
      <<"PITT", "North", "YellowE">>, <<"PITT", "South", "YellowW">>,
      <<"SFIA", "South", "YellowW">>, <<"SFIA", "North", "YellowE">>,
      <<"MLBR", "South", "RedW">>, <<"MLBR", "North", "RedE">>,
      <<"RICH", "North", "RedE">>, <<"RICH", "South", "OrangeW">>,
      <<"BERY", "South", "GreenE">>, <<"BERY", "North", "OrangeW">>,
      <<"DALY", "South", "GreenW">>, <<"DALY", "North", "GreenE">> }

\* the estimates of the feed, as (destination index, estimate index), that the
\* table files under key k
estimatesFor(k) ==
    {p \in (1..Len(etd)) \X (1..MaxTrains + 1) :
        /\ p[2] <= Len(etd[p[1]].estimate)
        /\ <<etd[p[1]].abbreviation, etd[p[1]].estimate[p[2]].direction, k>>
               \in MappingTable}

\* the Departure of an estimate of the feed
departureOf(p) ==
    LET destination == etd[p[1]]
        estimate == destination.estimate[p[2]]
        minutes == CASE estimate.minutes = "0" -> 0
                     [] estimate.minutes = "5" -> 5
                     [] estimate.minutes = "12" -> 12
                     [] OTHER -> 0 - 1
        instant == IF minutes < 0 THEN NaN ELSE Num((clock + minutes) * 60000)
    IN  [destination |-> destination.destination,
         minutes |-> estimate.minutes,
         departureTime |-> formatLastUpdated(instant),
         actualDepartureTime |-> instant,
         length |-> estimate.length,
         direction |-> estimate.direction]

countIn(s, x) == Cardinality({i \in 1..Len(s) : s[i] = x})

\* C16: the board of formatDepartures has the 8 keys and no other, and under
\* each key exactly one Departure for each estimate of the feed whose
\* (destination code, raw direction) pair the mapping table files under that
\* key; estimates of pairs without an entry appear nowhere.
C16_OneDeparturePerMappedEstimate ==
    pc \in {"formatted", "filtered"} =>
        /\ DOMAIN allDepartures = LineKeySet
        /\ \A k \in LineKeySet :
               /\ Len(allDepartures[k]) = Cardinality(estimatesFor(k))
               /\ \A p \in estimatesFor(k) :
                      countIn(allDepartures[k], departureOf(p))
                          = Cardinality({q \in estimatesFor(k) :
                                            departureOf(q) = departureOf(p)})

\* RICH/North in 5 minutes is filed under RedE, an Oakland Airport estimate
\* of the same feed nowhere
C16_Witness ==
    /\ pc = "formatted"
    /\ Len(etd) = 2
    /\ \E d \in 1..2 : etd[d].abbreviation = "OAKL"
    /\ Len(allDepartures["RedE"]) = 1
    /\ allDepartures["RedE"][1].destination = "Richmond"
    /\ allDepartures["RedE"][1].direction = "North"
    /\ allDepartures["RedE"][1].minutes = "5"
    /\ allDepartures["RedE"][1].actualDepartureTime = Num((clock + 5) * 60000)
    /\ \A k \in LineKeySet \ {"RedE"} : allDepartures[k] = <<>>

\* position p of the feed comes before position q
positionBefore(p, q) == p[1] < q[1] \/ (p[1] = q[1] /\ p[2] < q[2])

RECURSIVE inFeedOrder(_)
\* the Departures of the positions S of the feed, in the order of the feed
inFeedOrder(S) ==
    IF S = {} THEN <<>>
    ELSE LET first == CHOOSE p \in S : \A q \in S : p = q \/ positionBefore(p, q)
         IN  <<departureOf(first)>> \o inFeedOrder(S \ {first})

\* no departure of the sequence comes after one with a later instant
timeOrdered(trains) ==
    \A i, j \in 1..Len(trains) :
        i < j => ~NumLess(trains[j].actualDepartureTime, trains[i].actualDepartureTime)

departingAt(trains, instant) ==
    SelectSeq(trains, LAMBDA train : train.actualDepartureTime = instant)

\* C17: for every feed whose minutes are non-negative integers or the
\* non-numeric sentinel, in each bucket of formatDepartures no departure
\* follows one with a later instant, and the departures of one instant stand
\* in the order of the feed.
C17_BucketsSortedAndStable ==
    pc \in {"formatted", "filtered"} =>
        \A k \in LineKeySet :
            /\ timeOrdered(allDepartures[k])
            /\ \A i \in 1..Len(allDepartures[k]) :
                   LET instant == allDepartures[k][i].actualDepartureTime
                   IN  ~instant.nan =>
                           departingAt(allDepartures[k], instant)
                               = departingAt(inFeedOrder(estimatesFor(k)), instant)

\* the departures the filter retains, in the order it collects them
retained == collectTrains(allDepartures, LineKeys, isEastUser, <<>>)

\* the filter applied to a filtered object and the same coordinate: the
\* entries are read in their insertion order
filteredAgain(filtered) ==
    LET keys == [i \in 1..Len(filtered) |-> filtered[i].color]
        board == [k \in Range(keys) |-> trainsOf(filtered, k)]
        allTrains == collectTrains(board, keys, isEastUser, <<>>)
    IN  {regroup(sorted, <<>>) : sorted \in sortOutcomes(allTrains)}

\* C18: in the filtered board each key's sequence is time-ordered and is the
\* subsequence, for that key, of the retained departures sorted by instant
\* (equal instants in collection order); filtering the output again with the
\* same coordinate reproduces it.
C18_FilterOutputIsGloballySorted ==
    pc = "filtered" =>
        /\ \A i \in 1..Len(departures) :
               /\ timeOrdered(departures[i].trains)
               /\ departures[i].trains =
                      SelectSeq(stableSort(retained),
                                LAMBDA train : train.lineColor = departures[i].color)
        /\ filteredAgain(departures) = {departures}

\* C19: the directory request is issued only once Location.current() has come
\* back and a coordinate, live or cached, is at hand; the departures request is
\* issued only once the directory request has returned a station list and the
\* nearest station is resolved, and it is issued for that station.
C19_StepsInOrder ==
    /\ calls.directory >= 1 =>
           /\ calls.locationReply # NoReply
           /\ location # Null
           /\ location.latitude \in {c.latitude : c \in Coordinates}
    /\ calls.directoryReply # NoReply => calls.directory >= 1
    /\ calls.departures >= 1 =>
           /\ calls.directoryReply \notin {NoReply, Failed}
           /\ ~withoutStationList(calls.directoryReply)
           /\ closest # Null
           /\ closest.station \in Range(directoryStations)
           /\ calls.orig = closest.station.abbr
    /\ calls.departuresReply # NoReply => calls.departures >= 1

\* a cached coordinate, a directory of two stations, and the departures
\* requested for the second, which is the nearer
C19_Witness ==
    /\ pc = "awaitDepartures"
    /\ liveFix = "failed"
    /\ location # Null
    /\ Len(directoryStations) = 2
    /\ closest.station = directoryStations[2]
    /\ calls.orig = directoryStations[2].abbr
    /\ calls.orig # directoryStations[1].abbr
    /\ calls.departures = 1

\* C20: an invocation writes the keychain entry at most once and reads it at
\* most once, and reads it only when its live location fix failed.
C20_CacheReadOnceOnFailure ==
    /\ calls.keychainSet <= 1
    /\ calls.keychainGet <= 1
    /\ calls.keychainGet >= 1 => liveFix = "failed"

\* C21: in table mode, when a coordinate was obtained and the directory and
\* departures documents came back complete, the table is presented and not the
\* 'BART API Error' alert, whatever the filtered board.
C21_TableIsPresented ==
    (~runsInWidget /\ pc = "done" /\ location # Null /\ departuresArrived) =>
        /\ outcome = "Result"
        /\ Len(view) = 1
        /\ view[1].kind = "table"

\* C22: once Location.current() has resolved, the invocation goes on with the
\* coordinate of the fix, whether or not Keychain.set throws: it issues the
\* directory request, neither takes the cached coordinate nor ends with the
\* NoLocation presentation.
C22_LiveFixIsUsed ==
    liveFix = "ok" =>
        /\ location # Null
        /\ location.latitude = calls.locationReply.latitude
        /\ location.longitude = calls.locationReply.longitude
        /\ calls.directory = 1
        /\ calls.keychainGetThrew = <<>> \/ pc = "done"
        /\ outcome # "NoLocation"

\* the destination codes and raw directions getLineColor is asked about: the
\* seven codes of its table and one outside it, the four compass directions
TableCodes == {"ANTC", "PITT", "SFIA", "MLBR", "RICH", "BERY", "DALY", "OAKL"}
RawDirections == {"North", "South", "East", "West"}

\* C23: every one of the 8 keys of the board is what getLineColor answers for
\* at least one (destination code, raw direction) pair, so that some feed
\* populates each bucket of formatDepartures.
C23_EveryKeyHasAPair ==
    \A k \in DOMAIN allDepartures :
        \E destination \in TableCodes, direction \in RawDirections :
            getLineColor(destination, direction) = k

\* a departure of the filtered board without the lineColor it was tagged with
untagged(train) ==
    [destination |-> train.destination,
     minutes |-> train.minutes,
     departureTime |-> train.departureTime,
     actualDepartureTime |-> train.actualDepartureTime,
     length |-> train.length,
     direction |-> train.direction]

\* C24: a call of filterRoutesByDirection leaves the board it was given as it
\* was (keys, sequences, order), and the object it returns has each key once,
\* only keys of the board, and under a key only departures of the board's
\* sequence for that key, each at most as often as it stands there:
\* nothing is duplicated, invented or moved to another key.
C24_FilterKeepsInputAndKeys ==
    [][(pc = "formatted" /\ pc' = "filtered") =>
          /\ allDepartures' = allDepartures
          /\ \A i, j \in 1..Len(departures') :
                 departures'[i].color = departures'[j].color => i = j
          /\ \A i \in 1..Len(departures') :
                 LET color == departures'[i].color
                     trains == departures'[i].trains
                     output == [n \in 1..Len(trains) |-> untagged(trains[n])]
                 IN  /\ color \in DOMAIN allDepartures
                     /\ trains # <<>>
                     /\ \A n \in 1..Len(trains) :
                            /\ trains[n].lineColor = color
                            /\ countIn(output, output[n])
                                   <= countIn(allDepartures[color], output[n])
    ]_vars

\* a board with departures under two keys, filtered to both keys with one
\* departure of the board left out
C24_Witness ==
    /\ pc = "filtered"
    /\ Len(departures) = 2
    /\ \E k \in LineKeySet :
           /\ allDepartures[k] # <<>>
           /\ Len(trainsOf(departures, k)) < Len(allDepartures[k])
    /\ \A k \in LineKeySet :
           \A n \in 1..Len(trainsOf(departures, k)) :
               countIn(allDepartures[k], untagged(trainsOf(departures, k)[n])) > 0

\* run() is suspended at one of its awaited calls
awaiting == pc \in {"awaitLocation", "awaitDirectory", "awaitDepartures"}

\* C25: when every awaited call returns or fails, every invocation of run()
\* comes to its end, and at its end it has presented exactly one of the
\* result, the 'BART API Error' outcome and the NoLocation outcome; it
\* presents nothing before its end.
C25_RunEndsWithOneOutcome ==
    /\ [](awaiting => view = <<>>)
    /\ []((pc = "done") =>
              /\ Len(view) = 1
              /\ outcome \in {"Result", "ApiError", "NoLocation"})
    /\ (awaiting ~> pc = "done")

\* a second invocation that ended with the 'BART API Error' outcome, and that
\* alone, after its departures request failed
C25_Witness ==
    /\ pc = "done"
    /\ keychain \notin {Absent, Garbage}
    /\ calls.departuresReply = Failed
    /\ Len(view) = 1
    /\ outcome = "ApiError"

====
